---- MODULE Spec2Model ----
(***************************************************************************)
(* The guessing game of src/main.rs as a state machine.                    *)
(*                                                                         *)
(* main() draws a secret in 1..=100, then loops: print a prompt, read one  *)
(* line from stdin into a fresh String, trim it and parse it as u32        *)
(* (continue on Err), compare it with the secret and print the feedback,   *)
(* breaking out of the loop on Equal.                                      *)
(*                                                                         *)
(* Text is a sequence of one-character strings, so that trimming and       *)
(* parsing are computed character by character as the library does.        *)
(***************************************************************************)
EXTENDS Integers, Sequences, FiniteSets, TLC

VARIABLES
    secret,     \* secret_number (u32), bound once at line 19
    pc,         \* position of main: "prompt", "read", "parse", "compare", "done", "panicked"
    guess,      \* the String `guess` of line 29 (raw text of the current line)
    num,        \* the shadowing `guess: u32` of line 38: <<>> (not bound) or <<v>>
    out,        \* what println! has written to stdout, one entry per line
    reads,      \* number of read_line calls that have returned
    draws,      \* number of times the random source has been consulted
    rd,         \* what the input stream supplied to the latest read_line:
                \* "none" (no read yet), "line", "eof" or "ioerr"
    matched,    \* some line read so far parses to a guess equal to the secret
    due         \* the feedback the lines read so far call for, in input order

vars == <<secret, pc, guess, num, out, reads, draws, rd, matched, due>>

----------------------------------------------------------------------------
(* Program constants *)

\* gen_range(1..=100): inclusive lower and upper bound of the secret
Lo == 1
Hi == 100

(* u32 values.  A u32 is held as two 16-bit limbs <<hi, lo>>, value          *)
(* hi * 65536 + lo, so that the whole range 0..4294967295 of the type and    *)
(* the overflow check of the parser are exact.                              *)
Limb == 256 * 256

\* the u32 of a small natural number
U32(n) == <<n \div Limb, n % Limb>>

IsU32(v) == v \in (0..(Limb - 1)) \X (0..(Limb - 1))

\* result.checked_mul(10) followed by checked_add(d): None when the exact
\* result exceeds u32::MAX
CheckedMulAdd(v, d) ==
    LET lo == v[2] * 10 + d
        hi == v[1] * 10 + (lo \div Limb)
    IN  [some |-> hi < Limb, val |-> <<hi % Limb, lo % Limb>>]

(* Bounds of the model *)

\* at most this many loop iterations are explored
MaxReads == 3
\* the decimal guesses 0..MaxGuess are offered as input lines
MaxGuess == 101
\* whitespace of up to this many characters is put on each side of a line
MaxPad == 1

----------------------------------------------------------------------------
(* Characters and text *)

DigitChars == <<"0", "1", "2", "3", "4", "5", "6", "7", "8", "9">>

IsDigit(c) == \E i \in 1..10 : DigitChars[i] = c

\* char::to_digit(10) on a decimal digit
DigitVal(c) == (CHOOSE i \in 1..10 : DigitChars[i] = c) - 1

\* char::is_whitespace: the White_Space characters that occur in the inputs
\* ("<NBSP>" stands for U+00A0, "<BAD>" for a byte that is not valid UTF-8)
IsWhitespace(c) == c \in {" ", "\t", "\n", "\r", "<NBSP>"}

RECURSIVE TrimStart(_)
\* str::trim_start: drop leading whitespace
TrimStart(s) ==
    IF s = <<>> THEN <<>>
    ELSE IF IsWhitespace(Head(s)) THEN TrimStart(Tail(s))
    ELSE s

RECURSIVE TrimEnd(_)
\* str::trim_end: drop trailing whitespace
TrimEnd(s) ==
    IF s = <<>> THEN <<>>
    ELSE IF IsWhitespace(s[Len(s)]) THEN TrimEnd(SubSeq(s, 1, Len(s) - 1))
    ELSE s

\* Trim that strips the end of the text only (trim_end for trim)
Trim_EndOnly(s) == TrimEnd(s)

\* str::trim of line 38
Trim(s) == TrimEnd(TrimStart(s))

Ok(v) == [ok |-> TRUE, val |-> v, err |-> "none"]
Err(kind) == [ok |-> FALSE, val |-> U32(0), err |-> kind]

RECURSIVE ParseDigits(_, _)
\* the digit loop of u32::from_str: result = result * 10 + digit, checked
ParseDigits(acc, s) ==
    IF s = <<>> THEN Ok(acc)
    ELSE IF ~IsDigit(Head(s)) THEN Err("InvalidDigit")
    ELSE IF ~CheckedMulAdd(acc, DigitVal(Head(s))).some THEN Err("PosOverflow")
    ELSE ParseDigits(CheckedMulAdd(acc, DigitVal(Head(s))).val, Tail(s))

\* str::parse::<u32>() of line 38 (u32::from_str, radix 10): empty text is an
\* error, a lone sign is an error, one leading "+" is accepted, "-" is not a
\* sign of an unsigned type, every other character must be a decimal digit,
\* and the value must fit in 32 bits.
FromStr(s) ==
    IF s = <<>> THEN Err("Empty")
    ELSE IF Len(s) = 1 /\ Head(s) \in {"+", "-"} THEN Err("InvalidDigit")
    ELSE IF Head(s) = "+" THEN ParseDigits(U32(0), Tail(s))
    ELSE ParseDigits(U32(0), s)

\* guess.trim().parse() of line 38
TrimParse(s) == FromStr(Trim(s))

\* core::str::from_utf8 as read_line applies it to the bytes of the line
ValidUtf8(s) == \A i \in 1..Len(s) : s[i] # "<BAD>"

\* Cmp with the guess truncated to its low 16 bits before the comparison
Cmp_Truncating(a, b) ==
    IF a[2] < b[2] THEN "Less" ELSE IF a[2] > b[2] THEN "Greater" ELSE "Equal"

\* u32::cmp of line 49
Cmp(a, b) ==
    IF a[1] < b[1] \/ (a[1] = b[1] /\ a[2] < b[2]) THEN "Less"
    ELSE IF a[1] > b[1] \/ (a[1] = b[1] /\ a[2] > b[2]) THEN "Greater"
    ELSE "Equal"

----------------------------------------------------------------------------
(* The input lines offered to the program *)

RECURSIVE Decimal(_)
\* the decimal numeral of n
Decimal(n) ==
    IF n < 10 THEN <<DigitChars[n + 1]>>
    ELSE Decimal(n \div 10) \o <<DigitChars[(n % 10) + 1]>>

NumberLines == { Decimal(n) \o <<"\n">> : n \in 0..MaxGuess }

OtherLines == {
    <<"\n">>,                                  \* empty line
    <<"a", "b", "c", "\n">>,
    <<"3", ".", "5", "\n">>,
    <<"-", "5", "\n">>,
    <<"-", "0", "\n">>,
    <<"+", "5", "\n">>,
    <<"+", "\n">>,
    <<"0", "0", "7", "\n">>,
    <<"4", " ", "2", "\n">>,
    <<" ", "4", "2", " ", "\n">>,
    <<"\t", "7", "\r", "\n">>,
    <<"<NBSP>", "9", "\n">>,
    <<"4", "2">>,                              \* last line, no newline
    <<"4", "2", "9", "4", "9", "6", "7", "2", "9", "5", "\n">>,       \* u32::MAX
    <<"4", "2", "9", "4", "9", "6", "7", "2", "9", "6", "\n">>,       \* u32::MAX + 1
    <<"4", "2", "9", "4", "9", "6", "7", "3", "0", "0", "\n">>,
    <<"9", "9", "9", "9", "9", "9", "9", "9", "9", "9", "9", "\n">>,
    <<"6", "5", "5", "3", "6", "\n">>,                               \* 2^16
    <<"<BAD>", "\n">>,                         \* bytes that are not UTF-8
    <<"5", "<BAD>", "\n">>
}

Lines == NumberLines \cup OtherLines

\* what one read of the stream can meet: the bytes of a line, end of stream,
\* or a device error
StreamItems ==
    { [kind |-> "line", bytes |-> l] : l \in Lines }
    \cup { [kind |-> "eof", bytes |-> <<>>], [kind |-> "ioerr", bytes |-> <<>>] }

\* every content the String `guess` can have after a read
Texts == { l \in Lines : ValidUtf8(l) } \cup {<<>>}

\* guess.trim().parse() tabulated once over the texts that can be read
ParseTable == [t \in Texts |-> TrimParse(t)]

\* the Result that line 38 matches on, for the text s of `guess`
ParseGuess(s) == ParseTable[s]

----------------------------------------------------------------------------
(* The program *)

\* SecretRange with the half-open range 1..100 in place of 1..=100
SecretRange_HalfOpen == Lo..(Hi - 1)

\* the values gen_range(1..=100) of line 19 can return
SecretRange == Lo..Hi

\* lines 16-20: the banner, the draw of the secret, the line revealing it
Init ==
    /\ secret \in SecretRange
    /\ pc = "prompt"
    /\ guess = <<>>
    /\ num = <<>>
    /\ out = << <<"Guess the number!">>, <<"The secret number is: ", secret>> >>
    /\ reads = 0
    /\ draws = 1
    /\ rd = "none"
    /\ matched = FALSE
    /\ due = <<>>

\* line 24: println!("Please input your guess.") at the top of the loop
Prompt ==
    /\ pc = "prompt"
    /\ reads < MaxReads
    /\ out' = Append(out, <<"Please input your guess.">>)
    /\ pc' = "read"
    /\ UNCHANGED <<secret, guess, num, reads, draws, rd, matched, due>>

\* the integer order between a u32 guess and a secret s in 1..100, stated on
\* the value hi * 65536 + lo of the guess
GuessBelow(v, s) == v[1] = 0 /\ v[2] < s
GuessAbove(v, s) == v[1] > 0 \/ v[2] > s
GuessSame(v, s) == v[1] = 0 /\ v[2] = s

\* the message that a guess of value v calls for against the secret s
DueMessage(v, s) ==
    IF GuessBelow(v, s) THEN <<"Too small!">>
    ELSE IF GuessAbove(v, s) THEN <<"Too big!">>
    ELSE <<"You win!">>

\* Result of io::stdin().read_line(&mut buf) on a stream item: the text is
\* appended and Ok(n) returned; end of stream is Ok(0) with nothing appended;
\* a device error, or bytes that are not UTF-8, is Err with buf unchanged.
ReadLineResult(buf, item) ==
    IF item.kind = "ioerr" THEN [ok |-> FALSE, buf |-> buf]
    ELSE IF item.kind = "eof" THEN [ok |-> TRUE, buf |-> buf]
    ELSE IF ~ValidUtf8(item.bytes) THEN [ok |-> FALSE, buf |-> buf]
    ELSE [ok |-> TRUE, buf |-> buf \o item.bytes]

\* lines 29-35: String::new(), read_line into it, expect() panics on Err
ReadLine ==
    /\ pc = "read"
    /\ \E item \in StreamItems :
        LET r == ReadLineResult(<<>>, item) IN
        /\ guess' = r.buf
        /\ pc' = IF r.ok THEN "parse" ELSE "panicked"
        /\ rd' = item.kind
        /\ matched' = (matched \/ (r.ok /\ ParseGuess(r.buf).ok
                                        /\ ParseGuess(r.buf).val = U32(secret)))
        /\ due' = IF r.ok /\ item.kind = "line" /\ ~matched /\ ParseGuess(r.buf).ok
                  THEN Append(due, DueMessage(ParseGuess(r.buf).val, secret))
                  ELSE due
    /\ reads' = reads + 1
    /\ num' = <<>>
    /\ UNCHANGED <<secret, out, draws>>

\* Parse announcing the win itself when the parsed number is the secret
Parse_WinDirect ==
    /\ pc = "parse"
    /\ LET r == ParseGuess(guess) IN
        IF r.ok /\ r.val = U32(secret)
        THEN /\ num' = <<>>
             /\ out' = Append(out, <<"You win!">>)
             /\ pc' = "done"
        ELSE IF r.ok
        THEN /\ num' = <<r.val>>
             /\ out' = out
             /\ pc' = "compare"
        ELSE /\ num' = <<>>
             /\ out' = out
             /\ pc' = "prompt"
    /\ guess' = <<>>
    /\ UNCHANGED <<secret, reads, draws, rd, matched, due>>

\* Parse going back to read_line, past the prompt, when the parse fails
Parse_RetryRead ==
    /\ pc = "parse"
    /\ LET r == ParseGuess(guess) IN
        IF r.ok
        THEN /\ num' = <<r.val>>
             /\ pc' = "compare"
        ELSE /\ num' = <<>>
             /\ pc' = "read"
    /\ guess' = <<>>
    /\ UNCHANGED <<secret, out, reads, draws, rd, matched, due>>

\* Parse with `Err(_) => 0` in place of `Err(_) => continue`
Parse_ErrAsZero ==
    /\ pc = "parse"
    /\ num' = <<ParseGuess(guess).val>>
    /\ pc' = "compare"
    /\ guess' = <<>>
    /\ UNCHANGED <<secret, out, reads, draws, rd, matched, due>>

\* lines 38-44: trim, parse, bind the number or `continue`
Parse ==
    /\ pc = "parse"
    /\ LET r == ParseGuess(guess) IN
        IF r.ok
        THEN /\ num' = <<r.val>>
             /\ pc' = "compare"
        ELSE /\ num' = <<>>
             /\ pc' = "prompt"
    /\ guess' = <<>>
    /\ UNCHANGED <<secret, out, reads, draws, rd, matched, due>>

\* Feedback with the messages of the Less and Greater arms exchanged
Feedback_Swapped(ord) ==
    IF ord = "Less" THEN <<"Too big!">>
    ELSE IF ord = "Greater" THEN <<"Too small!">>
    ELSE <<"You win!">>

\* Feedback with the win message in the Greater arm too
Feedback_WinOnGreater(ord) ==
    IF ord = "Less" THEN <<"Too small!">> ELSE <<"You win!">>

\* the message of each arm of the match of lines 49-58
Feedback(ord) ==
    IF ord = "Less" THEN <<"Too small!">>
    ELSE IF ord = "Greater" THEN <<"Too big!">>
    ELSE <<"You win!">>

\* Breaks with the `break` of the Equal arm left out
Breaks_Never(ord) == FALSE

\* Breaks with the `break` also in the Greater arm
Breaks_OnGreater(ord) == ord \in {"Equal", "Greater"}

\* the arm that leaves the loop (line 56)
Breaks(ord) == ord = "Equal"

\* Compare drawing a new secret after every wrong guess
Compare_Redraw ==
    /\ pc = "compare"
    /\ LET ord == Cmp(num[1], U32(secret)) IN
        /\ out' = Append(out, Feedback(ord))
        /\ pc' = IF Breaks(ord) THEN "done" ELSE "prompt"
        /\ IF Breaks(ord)
           THEN UNCHANGED <<secret, draws>>
           ELSE secret' \in SecretRange /\ draws' = draws + 1
    /\ num' = <<>>
    /\ UNCHANGED <<guess, reads, rd, matched, due>>

\* lines 49-58: compare, print the feedback, break on Equal
Compare ==
    /\ pc = "compare"
    /\ LET ord == Cmp(num[1], U32(secret)) IN
        /\ out' = Append(out, Feedback(ord))
        /\ pc' = IF Breaks(ord) THEN "done" ELSE "prompt"
    /\ num' = <<>>
    /\ UNCHANGED <<secret, guess, reads, draws, rd, matched, due>>

Next == Prompt \/ ReadLine \/ Parse \/ Compare

Spec == Init /\ [][Next]_vars

\* main is one sequential thread: every step that does not wait for input is
\* eventually taken. ReadLine waits for the environment and gets no fairness.
FairSpec == Spec /\ WF_vars(Prompt) /\ WF_vars(Parse) /\ WF_vars(Compare)

----------------------------------------------------------------------------
(* Vocabulary of the claims *)

Last(s) == s[Len(s)]

\* the control state of the game in the terms of the design: the loop is
\* awaiting input from the prompt until the parse, evaluating while the parsed
\* guess is compared, won after the break; a panic ends the process
Ctl ==
    IF pc \in {"prompt", "read", "parse"} THEN "AwaitingInput"
    ELSE IF pc = "compare" THEN "Evaluating"
    ELSE IF pc = "done" THEN "Won"
    ELSE "Aborted"

Running == pc \in {"prompt", "read", "parse", "compare"}

\* the exit status of the process: 0 when main returns after the break,
\* 101 when expect() panicked, none while main is running
ExitStatus ==
    IF pc = "done" THEN <<0>> ELSE IF pc = "panicked" THEN <<101>> ELSE <<>>

\* the feedback lines written so far (everything but banner and prompts)
IsFeedback(m) == m \in {<<"Too small!">>, <<"Too big!">>, <<"You win!">>}
NumFeedback == Cardinality({i \in 1..Len(out) : IsFeedback(out[i])})

TypeOK ==
    /\ secret \in Nat
    /\ pc \in {"prompt", "read", "parse", "compare", "done", "panicked"}
    /\ guess \in Lines \cup {<<>>}
    /\ num = <<>> \/ (Len(num) = 1 /\ IsU32(num[1]))
    /\ reads \in 0..MaxReads
    /\ rd \in {"none", "line", "eof", "ioerr"}
    /\ matched \in BOOLEAN

----------------------------------------------------------------------------
(* C1: the loop is in its terminal Won state only if some line read was    *)
(* parsed as a guess equal to the secret, and once such a line is read the *)
(* program is processing it or has won; with no such line and no failed    *)
(* read the loop is still running, whatever the number of lines consumed,  *)
(* and a pending read accepts every item of the stream.                    *)
C1_WonIffMatched ==
    /\ pc = "done" => matched
    /\ matched => pc \in {"parse", "compare", "done"}
    /\ (~matched /\ pc # "panicked") => Running
    /\ pc = "read" => ENABLED ReadLine

\* after MaxReads invalid lines and wrong guesses the loop awaits input
C1_Witness ==
    /\ reads = MaxReads /\ pc = "prompt" /\ ~matched
    /\ NumFeedback > 0 /\ NumFeedback < reads

(* C2: when a parsed guess g is compared with the secret s, g < s writes   *)
(* exactly "Too small!" and the loop continues, g > s writes exactly       *)
(* "Too big!" and the loop continues, g = s writes exactly "You win!" and  *)
(* the loop ends; g ranges over the whole of u32, 0 and u32::MAX included. *)
C2_Feedback ==
    [][pc = "compare" =>
        /\ GuessBelow(num[1], secret) =>
              out' = Append(out, <<"Too small!">>) /\ pc' = "prompt"
        /\ GuessAbove(num[1], secret) =>
              out' = Append(out, <<"Too big!">>) /\ pc' = "prompt"
        /\ GuessSame(num[1], secret) =>
              out' = Append(out, <<"You win!">>) /\ pc' = "done"
        /\ secret' = secret]_vars

\* secret 100: a guess above the upper bound was answered "Too big!", and
\* then the guess 100 won
C2_Witness ==
    /\ secret = Hi /\ pc = "done"
    /\ Len(out) = 6 /\ out[4] = <<"Too big!">> /\ out[6] = <<"You win!">>

(* C3: processing a line that fails to parse returns the loop to the       *)
(* prompt with the same secret, writes nothing, binds no guess and does    *)
(* not end the game: the state after it differs from the state before the  *)
(* prompt only in the prompt written and the line consumed.                *)
C3_ParseFailureIsNoOp ==
    [][(pc = "parse" /\ ~ParseGuess(guess).ok) =>
        /\ pc' = "prompt"
        /\ out' = out
        /\ secret' = secret
        /\ num' = <<>>
        /\ guess' = <<>>
        /\ matched' = matched]_vars

\* MaxReads lines were read, none parsed: no feedback at all, still looping
C3_Witness ==
    /\ reads = MaxReads /\ pc = "prompt" /\ rd = "line"
    /\ NumFeedback = 0
    /\ Len(out) = 2 + MaxReads

(* C4: when the stream cannot supply a line (end of stream or a device     *)
(* error) the program aborts instead of going on with the loop.            *)
C4_AbortsWhenNoLine == rd \in {"eof", "ioerr"} => pc = "panicked"

\* end of stream was met and the program prompted again and read again
C4_Witness ==
    /\ rd = "eof" /\ pc = "parse" /\ reads >= 2
    /\ Len(out) = 2 + reads

(* C5: whatever bytes a delivered line holds, the program does not abort:  *)
(* the only abort is a failure of the stream itself.                       *)
C5_NoAbortOnAnyLine == pc = "panicked" => rd # "line"

\* the program aborted on a line that the stream did deliver
C5_Witness == pc = "panicked" /\ rd = "line"

\* the text is a decimal numeral: digits only, at least one, after an
\* optional plus sign
IsNumeral(t) ==
    LET d == IF t # <<>> /\ Head(t) = "+" THEN Tail(t) ELSE t
    IN  d # <<>> /\ \A i \in 1..Len(d) : IsDigit(d[i])

(* C6: a line is discarded as a parse error if and only if its trimmed     *)
(* text is not a non-negative integer numeral, of any magnitude.           *)
C6_DiscardIffNotNumeral ==
    [][pc = "parse" =>
        ((pc' = "prompt" /\ num' = <<>>) <=> ~IsNumeral(Trim(guess)))]_vars

\* the line about to be parsed is a numeral and the parse rejects it
C6_Witness ==
    /\ pc = "parse" /\ rd = "line"
    /\ IsNumeral(Trim(guess)) /\ ~ParseGuess(guess).ok

(* C7: in every reachable state the secret is an integer with              *)
(* 1 <= secret <= 100, and the draw can return 1 and can return 100.       *)
C7_SecretInRange ==
    /\ secret \in Int
    /\ 1 <= secret /\ secret <= 100
    /\ {1, 100} \subseteq SecretRange

\* a game played to the end with the secret at its upper bound
C7_Witness == secret = 100 /\ pc = "done" /\ reads = MaxReads

(* C8: the secret is drawn once, before the first prompt, and no step of   *)
(* the loop (prompt, read, parse failure, Less, Greater, Equal) changes it *)
(* or consults the random source again.                                    *)
C8_SecretFixed ==
    /\ [](draws = 1)
    /\ [](out[2] = <<"The secret number is: ", secret>>)
    /\ [][secret' = secret /\ draws' = draws]_vars

\* a game that met an unparsable line, a wrong guess and the winning guess
C8_Witness ==
    /\ pc = "done" /\ reads = 3 /\ NumFeedback = 2 /\ draws = 1

(* C9: once a line that parses to the secret has been read, the program    *)
(* eventually terminates; it has not terminated before such a line was     *)
(* read, and it reads no further line after it.                            *)
C9_TerminatesAtFirstMatch ==
    /\ [](pc = "done" => matched)
    /\ [][matched => reads' = reads]_vars
    /\ [][(~matched /\ matched') => (reads' = reads + 1 /\ pc' = "parse")]_vars
    /\ (matched ~> pc = "done")

\* the game was won on its last line, after earlier lines that did not match
C9_Witness ==
    /\ pc = "done" /\ matched /\ reads = MaxReads
    /\ Last(out) = <<"You win!">>

(* C10: the control state starts in AwaitingInput; from AwaitingInput it   *)
(* stays in AwaitingInput (prompt, read, parse failure) or, on a parse     *)
(* success only, goes to Evaluating; from Evaluating it goes to            *)
(* AwaitingInput on Less or Greater and to Won on Equal; Won has no        *)
(* outgoing step.  The panic on a failed read ends the process from        *)
(* AwaitingInput and is no state of the game.                              *)
C10_StateMachine ==
    /\ Ctl = "AwaitingInput"
    /\ [][/\ Ctl \in {"AwaitingInput", "Evaluating"}
          /\ (Ctl = "AwaitingInput" /\ pc = "parse") =>
                Ctl' = IF ParseGuess(guess).ok THEN "Evaluating"
                       ELSE "AwaitingInput"
          /\ (Ctl = "AwaitingInput" /\ pc = "read") =>
                Ctl' \in {"AwaitingInput", "Aborted"}
          /\ (Ctl = "AwaitingInput" /\ pc = "prompt") =>
                Ctl' = "AwaitingInput"
          /\ Ctl = "Evaluating" =>
                Ctl' = IF GuessSame(num[1], secret) THEN "Won"
                       ELSE "AwaitingInput"]_vars

\* Won was reached after a parse failure and a wrong guess
C10_Witness ==
    /\ Ctl = "Won" /\ reads = 3 /\ NumFeedback = 2

----------------------------------------------------------------------------
\* the feedback messages written so far, in the order written
FeedbackOf(o) == SelectSeq(o, IsFeedback)

IsPrefix(a, b) == Len(a) <= Len(b) /\ a = SubSeq(b, 1, Len(a))

(* C11: the feedback messages written are exactly, in input order, one     *)
(* message per successfully parsed line up to and including the first line *)
(* equal to the secret, each the message of its comparison with the        *)
(* secret, and none for a line that fails to parse; the message of the     *)
(* line being processed is the only one that can still be outstanding.     *)
C11_FeedbackInOrder ==
    /\ pc \in {"prompt", "read", "done", "panicked"} => FeedbackOf(out) = due
    /\ pc = "compare" =>
          (IsPrefix(FeedbackOf(out), due) /\ Len(due) = Len(FeedbackOf(out)) + 1)
    /\ pc = "parse" =>
          (IsPrefix(FeedbackOf(out), due) /\ Len(due) <= Len(FeedbackOf(out)) + 1)

\* secret 50 and three parsed lines below, above and equal to it: the game
\* ended with "Too small!", "Too big!", "You win!"
C11_Witness ==
    /\ secret = 50 /\ pc = "done" /\ reads = 3
    /\ FeedbackOf(out) = << <<"Too small!">>, <<"Too big!">>, <<"You win!">> >>

PromptLine == <<"Please input your guess.">>
NumPrompts == Cardinality({i \in 1..Len(out) : out[i] = PromptLine})

(* C12: every iteration writes one prompt and then makes one read: the     *)
(* number of prompts written equals the number of reads completed, or      *)
(* exceeds it by one exactly while a read is pending; a prompt is written  *)
(* only when the previous line has been discarded or compared, and a read  *)
(* is made only right after a prompt.                                      *)
C12_PromptThenRead ==
    /\ [](NumPrompts = IF pc = "read" THEN reads + 1 ELSE reads)
    /\ [][NumPrompts' # NumPrompts =>
            /\ pc = "prompt" /\ guess = <<>> /\ num = <<>>
            /\ out' = Append(out, PromptLine)
            /\ pc' = "read"]_vars
    /\ [][reads' # reads =>
            /\ pc = "read" /\ Last(out) = PromptLine
            /\ reads' = reads + 1]_vars

\* the third prompt is out and its read is pending after two processed lines
C12_Witness ==
    /\ pc = "read" /\ reads = 2 /\ NumPrompts = 3
    /\ Len(FeedbackOf(out)) = 1

WinLine == <<"You win!">>
NumWins == Cardinality({i \in 1..Len(out) : out[i] = WinLine})

(* C13: "You win!" is written at most once and is the last thing the       *)
(* program does: once it is written the program has left the loop with     *)
(* exit status 0, the message is the last line of the output, and no       *)
(* further step (prompt, read, feedback) is taken.                         *)
C13_WinIsLast ==
    /\ [](NumWins <= 1)
    /\ [](NumWins = 1 =>
            /\ pc = "done" /\ ExitStatus = <<0>>
            /\ Last(out) = WinLine
            /\ ~ENABLED Next)
    /\ [](pc = "done" => NumWins = 1)
    /\ [][pc # "done"]_vars

\* the game was won after earlier feedback: the win message is the last line
C13_Witness ==
    /\ pc = "done" /\ NumWins = 1 /\ Len(FeedbackOf(out)) = 3
    /\ Last(out) = WinLine

\* the whitespace characters put around a line
PadChars == {" ", "\t", "\n", "\r", "<NBSP>"}
Pads == UNION { [1..n -> PadChars] : n \in 0..MaxPad }

\* for a text t: whitespace added on either side, and the whitespace of t
\* removed from either side, leave the result of trim-then-parse the same
TrimStable ==
    [t \in Texts |->
        /\ \A w1 \in Pads : \A w2 \in Pads :
              TrimParse(w1 \o t \o w2) = TrimParse(t)
        /\ TrimParse(Trim(t)) = TrimParse(t)
        /\ TrimParse(TrimStart(t)) = TrimParse(t)
        /\ TrimParse(TrimEnd(t)) = TrimParse(t)]

(* C14: the line is parsed after it is trimmed and before it is compared:  *)
(* for the line being parsed, leading and trailing whitespace added or     *)
(* removed changes neither whether it parses nor its value, and the guess  *)
(* bound by the parse step is the value of the bare trimmed text.          *)
C14_TrimBeforeParse ==
    /\ [](pc = "parse" => TrimStable[guess])
    /\ [][pc = "parse" =>
            /\ num' = IF FromStr(Trim(guess)).ok
                      THEN <<FromStr(Trim(guess)).val>> ELSE <<>>
            /\ pc' = IF FromStr(Trim(guess)).ok THEN "compare" ELSE "prompt"]_vars

\* a number with whitespace on both sides is about to be parsed, and it is
\* the secret
C14_Witness ==
    /\ pc = "parse" /\ Len(guess) > 1
    /\ IsWhitespace(Head(guess)) /\ IsWhitespace(guess[Len(guess) - 1])
    /\ ParseGuess(guess).ok /\ ParseGuess(guess).val = U32(secret)

====
